---- MODULE Spec2Model ----
(***************************************************************************)
(* A model of terraform-provider-sysdig's cloudauth account client         *)
(* (package v2) and of the metric alert (AlertV2Metric) resource handlers  *)
(* with their two mappers (package sysdig).                                *)
(*                                                                         *)
(* Everything the code calls but does not define here (the Requester,      *)
(* Marshal/Unmarshal, ErrorFromResponse, the monitor client, the common    *)
(* and scoped-segmented mappers, the Terraform SDK) is the environment:    *)
(* each of its results is a choice over the outcomes it can hand back.     *)
(***************************************************************************)
EXTENDS Integers, Sequences, FiniteSets, TLC

VARIABLES
    call,   \* outcome of the most recent cloudauth client operation
    d,      \* the metric alert's schema.ResourceData (ID and fields)
    last    \* outcome of the most recent metric alert lifecycle handler

vars == <<call, d, last>>

(***************************************************************************)
(* Bounds                                                                  *)
(***************************************************************************)
\* Server-assigned alert IDs are the multiples 0, IDStep, .., MaxID * IDStep.
MaxID == 1
IDStep == 12

(***************************************************************************)
(* net/http status codes used by the client                                *)
(***************************************************************************)
StatusOK == 200
StatusCreated == 201
StatusNoContent == 204

\* The status codes a response may carry.
StatusCodes == {200, 201, 202, 204, 400, 401, 404, 409, 500, 503}

(***************************************************************************)
(* Part 1: the cloudauth account client                                    *)
(***************************************************************************)
cloudauthAccountsPath == "/api/cloudauth/v1/accounts"

\* client.config.url
BaseURL == "https://secure.example"

cloudauthAccountsURL == BaseURL \o cloudauthAccountsPath

cloudauthAccountURL(accountID) == BaseURL \o cloudauthAccountsPath \o "/" \o accountID

\* Account IDs and account payloads handed to the client.
AccountIDs == {"acc-1", "acc-2"}

Accounts == {"aws-account", "gcp-account"}

NilAccount == "nil"

\* Marshal(cloudAccount): the payload, or an error.
MarshalResults == {"ok", "marshal error"}

\* Unmarshal[*CloudauthAccountSecure](response.Body): a decoded account with
\* no error, or an error with nothing or with a partly decoded account.
UnmarshalResults ==
    {[account |-> a, err |-> "nil"] : a \in Accounts}
        \cup {[account |-> NilAccount, err |-> "unmarshal error"],
              [account |-> "partial", err |-> "unmarshal error"]}

\* client.requester.Request: a transport error, or a response with a status
\* code and a body (given by what Unmarshal makes of it).
Responses ==
    {[err |-> "transport error", status |-> 0, body |-> [account |-> NilAccount, err |-> "nil"]]}
        \cup {[err |-> "nil", status |-> s, body |-> b] : s \in StatusCodes, b \in UnmarshalResults}

\* client.ErrorFromResponse(response)
ErrorFromResponse(response) == "response error"

\* What a client operation leaves behind: the requests it handed to the
\* Requester, the status it saw (0: no response), and what it returned.
ClientResult(requests, status, account, err) ==
    [requests |-> requests, status |-> status, account |-> account, err |-> err]

HTTPRequest(method, url, payload) == [method |-> method, url |-> url, payload |-> payload]

\* Create, were it to accept every 2xx status.
CreateCloudauthAccountSecure_Any2xx(cloudAccount, marshal, response) ==
    IF marshal # "ok"
    THEN ClientResult(<<>>, 0, NilAccount, marshal)
    ELSE LET req == HTTPRequest("POST", cloudauthAccountsURL, cloudAccount) IN
         IF response.err # "nil"
         THEN ClientResult(<<req>>, 0, NilAccount, response.err)
         ELSE IF response.status < StatusOK \/ response.status >= 300
         THEN ClientResult(<<req>>, response.status, NilAccount, ErrorFromResponse(response))
         ELSE ClientResult(<<req>>, response.status, response.body.account, response.body.err)

CreateCloudauthAccountSecure(cloudAccount, marshal, response) ==
    IF marshal # "ok"
    THEN ClientResult(<<>>, 0, NilAccount, marshal)
    ELSE LET req == HTTPRequest("POST", cloudauthAccountsURL, cloudAccount) IN
         IF response.err # "nil"
         THEN ClientResult(<<req>>, 0, NilAccount, response.err)
         ELSE IF response.status # StatusOK /\ response.status # StatusCreated
         THEN ClientResult(<<req>>, response.status, NilAccount, ErrorFromResponse(response))
         ELSE ClientResult(<<req>>, response.status, response.body.account, response.body.err)

GetCloudauthAccountSecure(accountID, response) ==
    LET req == HTTPRequest("GET", cloudauthAccountURL(accountID), "nil") IN
    IF response.err # "nil"
    THEN ClientResult(<<req>>, 0, NilAccount, response.err)
    ELSE IF response.status # StatusOK
    THEN ClientResult(<<req>>, response.status, NilAccount, ErrorFromResponse(response))
    ELSE ClientResult(<<req>>, response.status, response.body.account, response.body.err)

\* Delete, were it to take 404 for an account already deleted.
DeleteCloudauthAccountSecure_NotFoundIsGone(accountID, response) ==
    LET req == HTTPRequest("DELETE", cloudauthAccountURL(accountID), "nil") IN
    IF response.err # "nil"
    THEN ClientResult(<<req>>, 0, NilAccount, response.err)
    ELSE IF response.status # StatusNoContent /\ response.status # StatusOK /\ response.status # 404
    THEN ClientResult(<<req>>, response.status, NilAccount, ErrorFromResponse(response))
    ELSE ClientResult(<<req>>, response.status, NilAccount, "nil")

\* Delete returns only an error; its account is always NilAccount.
DeleteCloudauthAccountSecure(accountID, response) ==
    LET req == HTTPRequest("DELETE", cloudauthAccountURL(accountID), "nil") IN
    IF response.err # "nil"
    THEN ClientResult(<<req>>, 0, NilAccount, response.err)
    ELSE IF response.status # StatusNoContent /\ response.status # StatusOK
    THEN ClientResult(<<req>>, response.status, NilAccount, ErrorFromResponse(response))
    ELSE ClientResult(<<req>>, response.status, NilAccount, "nil")

\* Update, were it to send the request again after a transport error.
UpdateCloudauthAccountSecure_Retry(accountID, cloudAccount, marshal, response) ==
    IF marshal # "ok"
    THEN ClientResult(<<>>, 0, NilAccount, marshal)
    ELSE LET req == HTTPRequest("PUT", cloudauthAccountURL(accountID), cloudAccount) IN
         IF response.err # "nil"
         THEN ClientResult(<<req, req>>, 0, NilAccount, response.err)
         ELSE IF response.status # StatusOK
         THEN ClientResult(<<req>>, response.status, NilAccount, ErrorFromResponse(response))
         ELSE ClientResult(<<req>>, response.status, response.body.account, response.body.err)

UpdateCloudauthAccountSecure(accountID, cloudAccount, marshal, response) ==
    IF marshal # "ok"
    THEN ClientResult(<<>>, 0, NilAccount, marshal)
    ELSE LET req == HTTPRequest("PUT", cloudauthAccountURL(accountID), cloudAccount) IN
         IF response.err # "nil"
         THEN ClientResult(<<req>>, 0, NilAccount, response.err)
         ELSE IF response.status # StatusOK
         THEN ClientResult(<<req>>, response.status, NilAccount, ErrorFromResponse(response))
         ELSE ClientResult(<<req>>, response.status, response.body.account, response.body.err)

NoCall == [op |-> "none"] @@ ClientResult(<<>>, 0, NilAccount, "nil")

ClientCreate ==
    /\ \E a \in Accounts, m \in MarshalResults, r \in Responses :
          call' = [op |-> "Create"] @@ CreateCloudauthAccountSecure(a, m, r)
    /\ UNCHANGED <<d, last>>

ClientGet ==
    /\ \E id \in AccountIDs, r \in Responses :
          call' = [op |-> "Get"] @@ GetCloudauthAccountSecure(id, r)
    /\ UNCHANGED <<d, last>>

ClientDelete ==
    /\ \E id \in AccountIDs, r \in Responses :
          call' = [op |-> "Delete"] @@ DeleteCloudauthAccountSecure(id, r)
    /\ UNCHANGED <<d, last>>

ClientUpdate ==
    /\ \E id \in AccountIDs, a \in Accounts, m \in MarshalResults, r \in Responses :
          call' = [op |-> "Update"] @@ UpdateCloudauthAccountSecure(id, a, m, r)
    /\ UNCHANGED <<d, last>>

NextClient == ClientCreate \/ ClientGet \/ ClientDelete \/ ClientUpdate

(***************************************************************************)
(* Part 2: the metric alert resource                                       *)
(***************************************************************************)
\* strconv.Itoa and strconv.Atoi, on strings held as sequences of characters.
DigitChars == <<"0", "1", "2", "3", "4", "5", "6", "7", "8", "9">>

IsDigit(c) == \E i \in 1..Len(DigitChars) : DigitChars[i] = c

DigitVal(c) == (CHOOSE i \in 1..Len(DigitChars) : DigitChars[i] = c) - 1

RECURSIVE ItoaNat(_)
ItoaNat(n) ==
    IF n < Len(DigitChars)
    THEN <<DigitChars[n + 1]>>
    ELSE ItoaNat(n \div Len(DigitChars)) \o <<DigitChars[(n % Len(DigitChars)) + 1]>>

Itoa(n) == IF n < 0 THEN <<"-">> \o ItoaNat(0 - n) ELSE ItoaNat(n)

RECURSIVE ParseDigits(_)
ParseDigits(s) ==
    IF s = <<>>
    THEN 0
    ELSE ParseDigits(SubSeq(s, 1, Len(s) - 1)) * Len(DigitChars) + DigitVal(s[Len(s)])

\* Atoi returns (0, error) for a string that is no optionally signed run of
\* digits, the empty string included.
Atoi(s) ==
    LET signed == s # <<>> /\ s[1] \in {"+", "-"}
        digits == IF signed THEN Tail(s) ELSE s
    IN  IF digits = <<>> \/ \E i \in 1..Len(digits) : ~IsDigit(digits[i])
        THEN [val |-> 0, err |-> "invalid syntax"]
        ELSE [val |-> IF signed /\ s[1] = "-" THEN 0 - ParseDigits(digits) ELSE ParseDigits(digits),
              err |-> "nil"]

\* IDs the server assigns.
AlertIDs == {k * IDStep : k \in 0..MaxID}

\* d.Id() before any handler ran: unset (a new resource), or the string an
\* import passed through (ImportStatePassthroughContext), numeric or not.
UnsetID == <<>>

ImportedIDs == {<<"0", "7">>, <<"a", "7">>}

\* An optional float: <<>> is absent (nil), <<v>> is the value v.
Nil == <<>>

\* The schema's configuration fields of the metric alert.
NewConfig(op, threshold, warning, metric, timeAgg, groupAgg, noData) ==
    [op |-> op, threshold |-> threshold, warning_threshold |-> warning, metric |-> metric,
     time_aggregation |-> timeAgg, group_aggregation |-> groupAgg, no_data_behaviour |-> noData]

\* Configurations the handlers start from: the plain one (no warning
\* threshold), one with every field different and a warning threshold, the
\* plain one with a warning threshold of 0, and the plain one naming its
\* metric by the descriptor's ID instead of its public ID.
Configs ==
    {NewConfig(">", 90, Nil, "sysdig_host_cpu_used_percent", "avg", "avg", "DO_NOTHING"),
     NewConfig("<", 10, <<20>>, "sysdig_host_memory_used_percent", "timeAvg", "sum", "TRIGGER"),
     NewConfig(">", 90, <<0>>, "sysdig_host_cpu_used_percent", "avg", "avg", "DO_NOTHING"),
     NewConfig(">", 90, <<80>>, "cpu.used.percent", "avg", "avg", "DO_NOTHING")}

NewResourceData(id, config) == [id |-> id] @@ config

ConfigOf(data) == [f \in DOMAIN data \ {"id"} |-> data[f]]

\* d.GetOk(key): the value, and whether it is set to a non-zero value.
GetOk(data, key) ==
    IF data[key] = Nil
    THEN [v |-> 0, ok |-> FALSE]
    ELSE [v |-> data[key][1], ok |-> data[key][1] # 0]

\* Label descriptors of the server.
Descriptors ==
    {[ID |-> "cpu.used.percent", PublicID |-> "sysdig_host_cpu_used_percent"],
     [ID |-> "memory.used.percent", PublicID |-> "sysdig_host_memory_used_percent"]}

NoDescriptor == [ID |-> "", PublicID |-> ""]

\* GetLabelDescriptor(ctx, metric): an error, or the descriptor the server
\* holds under that name, which is its ID or its public ID.
LookupResults(metric) ==
    {[descriptor |-> NoDescriptor, err |-> "descriptor not found"]}
        \cup {[descriptor |-> l, err |-> "nil"] : l \in {x \in Descriptors : metric \in {x.ID, x.PublicID}}}

AlertV2AlertType_Manual == "MANUAL"

\* A call handed to the monitor client, with the error it returned.
ClientCall(fn, id, alert, label, err) == [fn |-> fn, id |-> id, alert |-> alert, label |-> label, err |-> err]

\* What buildAlertV2CommonStruct, buildScopedSegmentedConfigStruct and
\* GetLabelDescriptor hand back to buildAlertV2MetricStruct.
BuildEnvs(metric) ==
    {[common |-> c, scoped |-> s, lookup |-> l] :
        c \in {"nil", "common error"}, s \in {"nil", "scoped error"}, l \in LookupResults(metric)}

BuildResult(alert, err, calls) == [alert |-> alert, err |-> err, calls |-> calls]

\* The build, were it to go on after a failed descriptor lookup.
buildAlertV2MetricStruct_IgnoreLookupErr(data, env) ==
    IF env.common # "nil" THEN BuildResult(<<>>, env.common, <<>>)
    ELSE IF env.scoped # "nil" THEN BuildResult(<<>>, env.scoped, <<>>)
    ELSE
        LET ConditionOperator == data.op
            warningThreshold == GetOk(data, "warning_threshold")
            metric == data.metric
            lookup == ClientCall("GetLabelDescriptor", 0, <<>>, metric, env.lookup.err)
        IN  IF FALSE
            THEN BuildResult(<<>>,
                     "error getting descriptor for label " \o metric \o ": " \o env.lookup.err,
                     <<lookup>>)
            ELSE BuildResult(
                     <<[ID |-> 0,
                        Type |-> AlertV2AlertType_Manual,
                        Config |->
                          [ConditionOperator |-> ConditionOperator,
                           Threshold |-> data.threshold,
                           WarningThreshold |-> IF warningThreshold.ok THEN <<warningThreshold.v>> ELSE Nil,
                           WarningConditionOperator |-> IF warningThreshold.ok THEN ConditionOperator ELSE "",
                           TimeAggregation |-> data.time_aggregation,
                           GroupAggregation |-> data.group_aggregation,
                           Metric |-> [ID |-> env.lookup.descriptor.ID,
                                       PublicID |-> env.lookup.descriptor.PublicID],
                           NoDataBehaviour |-> data.no_data_behaviour]]>>,
                     "nil",
                     <<lookup>>)

\* alert is <<>> for a nil *AlertV2Metric and <<a>> otherwise.
buildAlertV2MetricStruct(data, env) ==
    IF env.common # "nil" THEN BuildResult(<<>>, env.common, <<>>)
    ELSE IF env.scoped # "nil" THEN BuildResult(<<>>, env.scoped, <<>>)
    ELSE
        LET ConditionOperator == data.op
            warningThreshold == GetOk(data, "warning_threshold")
            metric == data.metric
            lookup == ClientCall("GetLabelDescriptor", 0, <<>>, metric, env.lookup.err)
        IN  IF env.lookup.err # "nil"
            THEN BuildResult(<<>>,
                     "error getting descriptor for label " \o metric \o ": " \o env.lookup.err,
                     <<lookup>>)
            ELSE BuildResult(
                     <<[ID |-> 0,
                        Type |-> AlertV2AlertType_Manual,
                        Config |->
                          [ConditionOperator |-> ConditionOperator,
                           Threshold |-> data.threshold,
                           WarningThreshold |-> IF warningThreshold.ok THEN <<warningThreshold.v>> ELSE Nil,
                           WarningConditionOperator |-> IF warningThreshold.ok THEN ConditionOperator ELSE "",
                           TimeAggregation |-> data.time_aggregation,
                           GroupAggregation |-> data.group_aggregation,
                           Metric |-> [ID |-> env.lookup.descriptor.ID,
                                       PublicID |-> env.lookup.descriptor.PublicID],
                           NoDataBehaviour |-> data.no_data_behaviour]]>>,
                     "nil",
                     <<lookup>>)

\* What updateAlertV2CommonState and updateScopedSegmentedConfigState return.
StateEnvs == {[common |-> c, scoped |-> s] : c \in {"nil", "common state error"}, s \in {"nil", "scoped state error"}}

\* The state update, were it to write the two aggregations into each other's field.
updateAlertV2MetricState_SwappedAggregations(data, alert, env) ==
    IF env.common # "nil" THEN [d |-> data, err |-> env.common]
    ELSE IF env.scoped # "nil" THEN [d |-> data, err |-> env.scoped]
    ELSE [d |-> [data EXCEPT
                   !.op = alert.Config.ConditionOperator,
                   !.threshold = alert.Config.Threshold,
                   !.warning_threshold =
                       IF alert.Config.WarningThreshold # Nil THEN alert.Config.WarningThreshold ELSE @,
                   !.time_aggregation = alert.Config.GroupAggregation,
                   !.group_aggregation = alert.Config.TimeAggregation,
                   !.metric = alert.Config.Metric.PublicID,
                   !.no_data_behaviour = alert.Config.NoDataBehaviour],
          err |-> "nil"]

\* The state update, were it to write a nil WarningThreshold as an absent warning_threshold.
updateAlertV2MetricState_ClearsWarning(data, alert, env) ==
    IF env.common # "nil" THEN [d |-> data, err |-> env.common]
    ELSE IF env.scoped # "nil" THEN [d |-> data, err |-> env.scoped]
    ELSE [d |-> [data EXCEPT
                   !.op = alert.Config.ConditionOperator,
                   !.threshold = alert.Config.Threshold,
                   !.warning_threshold =
                       alert.Config.WarningThreshold,
                   !.time_aggregation = alert.Config.TimeAggregation,
                   !.group_aggregation = alert.Config.GroupAggregation,
                   !.metric = alert.Config.Metric.PublicID,
                   !.no_data_behaviour = alert.Config.NoDataBehaviour],
          err |-> "nil"]

updateAlertV2MetricState(data, alert, env) ==
    IF env.common # "nil" THEN [d |-> data, err |-> env.common]
    ELSE IF env.scoped # "nil" THEN [d |-> data, err |-> env.scoped]
    ELSE [d |-> [data EXCEPT
                   !.op = alert.Config.ConditionOperator,
                   !.threshold = alert.Config.Threshold,
                   !.warning_threshold =
                       IF alert.Config.WarningThreshold # Nil THEN alert.Config.WarningThreshold ELSE @,
                   !.time_aggregation = alert.Config.TimeAggregation,
                   !.group_aggregation = alert.Config.GroupAggregation,
                   !.metric = alert.Config.Metric.PublicID,
                   !.no_data_behaviour = alert.Config.NoDataBehaviour],
          err |-> "nil"]

\* Alerts the server may answer with: what any build of a configuration
\* yields, and one whose warning threshold is a stored 0, under any ID.
ServerConfigs ==
    {buildAlertV2MetricStruct(NewResourceData(UnsetID, c),
                              [common |-> "nil", scoped |-> "nil", lookup |-> [descriptor |-> l, err |-> "nil"]]).alert[1].Config :
        c \in Configs, l \in Descriptors}
    \cup {[ConditionOperator |-> "<", Threshold |-> 10, WarningThreshold |-> <<0>>,
           WarningConditionOperator |-> "<", TimeAggregation |-> "timeAvg", GroupAggregation |-> "sum",
           Metric |-> [ID |-> "memory.used.percent", PublicID |-> "sysdig_host_memory_used_percent"],
           NoDataBehaviour |-> "TRIGGER"]}

ServerAlerts == {[ID |-> i, Type |-> AlertV2AlertType_Manual, Config |-> c] : i \in AlertIDs, c \in ServerConfigs}

\* The monitor client's results: an alert with no error, or an error.
NoAlert == <<>>

AlertResults ==
    {[alert |-> NoAlert, err |-> "monitor api error"]} \cup {[alert |-> <<a>>, err |-> "nil"] : a \in ServerAlerts}

DeleteResults == {"nil", "monitor api error"}

\* i.(SysdigClients).sysdigMonitorClient()
MonitorClientResults == {"nil", "monitor client error"}

\* What a handler leaves behind: the diagnostics it returned ("nil": none),
\* the monitor client calls it made, in order, and the alert the monitor
\* client handed back.
Outcome(handler, diag, calls, response) ==
    [handler |-> handler, diag |-> diag, calls |-> calls, response |-> response]

NoOutcome == Outcome("none", "nil", <<>>, NoAlert)

\* Create, were it to set the ID only once the state is written.
resourceSysdigMonitorAlertV2MetricCreate_IDAfterState ==
    /\ d.id = UnsetID
    /\ \E client \in MonitorClientResults :
         IF client # "nil"
         THEN /\ d' = d
              /\ last' = Outcome("Create", client, <<>>, NoAlert)
         ELSE \E b \in BuildEnvs(d.metric) :
              LET a == buildAlertV2MetricStruct(d, b) IN
              IF a.err # "nil"
              THEN /\ d' = d
                   /\ last' = Outcome("Create", a.err, a.calls, NoAlert)
              ELSE \E aCreated \in AlertResults :
                   LET calls == a.calls \o <<ClientCall("CreateAlertV2Metric", a.alert[1].ID, a.alert, "", aCreated.err)>> IN
                   IF aCreated.err # "nil"
                   THEN /\ d' = d
                        /\ last' = Outcome("Create", aCreated.err, calls, NoAlert)
                   ELSE \E s \in StateEnvs :
                        LET withID == [d EXCEPT !.id = Itoa(aCreated.alert[1].ID)]
                            updated == updateAlertV2MetricState(withID, aCreated.alert[1], s)
                        IN  /\ d' = (IF updated.err # "nil" THEN d ELSE updated.d)
                            /\ last' = Outcome("Create", updated.err, calls, aCreated.alert)
    /\ UNCHANGED call

\* The SDK calls Create for a resource that has no ID yet and Read, Update
\* and Delete for one that has.
resourceSysdigMonitorAlertV2MetricCreate ==
    /\ d.id = UnsetID
    /\ \E client \in MonitorClientResults :
         IF client # "nil"
         THEN /\ d' = d
              /\ last' = Outcome("Create", client, <<>>, NoAlert)
         ELSE \E b \in BuildEnvs(d.metric) :
              LET a == buildAlertV2MetricStruct(d, b) IN
              IF a.err # "nil"
              THEN /\ d' = d
                   /\ last' = Outcome("Create", a.err, a.calls, NoAlert)
              ELSE \E aCreated \in AlertResults :
                   LET calls == a.calls \o <<ClientCall("CreateAlertV2Metric", a.alert[1].ID, a.alert, "", aCreated.err)>> IN
                   IF aCreated.err # "nil"
                   THEN /\ d' = d
                        /\ last' = Outcome("Create", aCreated.err, calls, NoAlert)
                   ELSE \E s \in StateEnvs :
                        LET withID == [d EXCEPT !.id = Itoa(aCreated.alert[1].ID)]
                            updated == updateAlertV2MetricState(withID, aCreated.alert[1], s)
                        IN  /\ d' = updated.d
                            /\ last' = Outcome("Create", updated.err, calls, aCreated.alert)
    /\ UNCHANGED call

resourceSysdigMonitorAlertV2MetricRead ==
    /\ d.id # UnsetID
    /\ \E client \in MonitorClientResults :
         IF client # "nil"
         THEN /\ d' = d
              /\ last' = Outcome("Read", client, <<>>, NoAlert)
         ELSE LET id == Atoi(d.id) IN
              IF id.err # "nil"
              THEN /\ d' = d
                   /\ last' = Outcome("Read", id.err, <<>>, NoAlert)
              ELSE \E a \in AlertResults :
                   LET calls == <<ClientCall("GetAlertV2MetricById", id.val, <<>>, "", a.err)>> IN
                   IF a.err # "nil"
                   THEN /\ d' = [d EXCEPT !.id = UnsetID]
                        /\ last' = Outcome("Read", "nil", calls, NoAlert)
                   ELSE \E s \in StateEnvs :
                        LET updated == updateAlertV2MetricState(d, a.alert[1], s) IN
                        /\ d' = updated.d
                        /\ last' = Outcome("Read", updated.err, calls, a.alert)
    /\ UNCHANGED call

resourceSysdigMonitorAlertV2MetricUpdate ==
    /\ d.id # UnsetID
    /\ \E client \in MonitorClientResults :
         IF client # "nil"
         THEN /\ d' = d
              /\ last' = Outcome("Update", client, <<>>, NoAlert)
         ELSE \E b \in BuildEnvs(d.metric) :
              LET built == buildAlertV2MetricStruct(d, b) IN
              IF built.err # "nil"
              THEN /\ d' = d
                   /\ last' = Outcome("Update", built.err, built.calls, NoAlert)
              ELSE \E aUpdated \in AlertResults :
                   LET a == [built.alert[1] EXCEPT !.ID = Atoi(d.id).val]
                       calls == built.calls \o <<ClientCall("UpdateAlertV2Metric", a.ID, <<a>>, "", aUpdated.err)>>
                   IN  IF aUpdated.err # "nil"
                       THEN /\ d' = d
                            /\ last' = Outcome("Update", aUpdated.err, calls, NoAlert)
                       ELSE \E s \in StateEnvs :
                            LET updated == updateAlertV2MetricState(d, aUpdated.alert[1], s) IN
                            /\ d' = updated.d
                            /\ last' = Outcome("Update", updated.err, calls, aUpdated.alert)
    /\ UNCHANGED call

\* Delete, were it to return no diagnostic for an error of the client.
resourceSysdigMonitorAlertV2MetricDelete_Swallow ==
    /\ d.id # UnsetID
    /\ \E client \in MonitorClientResults :
         IF client # "nil"
         THEN last' = Outcome("Delete", client, <<>>, NoAlert)
         ELSE LET id == Atoi(d.id) IN
              IF id.err # "nil"
              THEN last' = Outcome("Delete", id.err, <<>>, NoAlert)
              ELSE \E err \in DeleteResults :
                   last' = Outcome("Delete", "nil", <<ClientCall("DeleteAlertV2Metric", id.val, <<>>, "", err)>>, NoAlert)
    /\ UNCHANGED <<call, d>>

\* Delete, were it to discard the ID's parse error as Update does.
resourceSysdigMonitorAlertV2MetricDelete_IgnoreAtoi ==
    /\ d.id # UnsetID
    /\ \E client \in MonitorClientResults :
         IF client # "nil"
         THEN last' = Outcome("Delete", client, <<>>, NoAlert)
         ELSE LET id == Atoi(d.id) IN
              IF FALSE
              THEN last' = Outcome("Delete", id.err, <<>>, NoAlert)
              ELSE \E err \in DeleteResults :
                   last' = Outcome("Delete", err, <<ClientCall("DeleteAlertV2Metric", id.val, <<>>, "", err)>>, NoAlert)
    /\ UNCHANGED <<call, d>>

resourceSysdigMonitorAlertV2MetricDelete ==
    /\ d.id # UnsetID
    /\ \E client \in MonitorClientResults :
         IF client # "nil"
         THEN last' = Outcome("Delete", client, <<>>, NoAlert)
         ELSE LET id == Atoi(d.id) IN
              IF id.err # "nil"
              THEN last' = Outcome("Delete", id.err, <<>>, NoAlert)
              ELSE \E err \in DeleteResults :
                   last' = Outcome("Delete", err, <<ClientCall("DeleteAlertV2Metric", id.val, <<>>, "", err)>>, NoAlert)
    /\ UNCHANGED <<call, d>>

NextAlert ==
    \/ resourceSysdigMonitorAlertV2MetricCreate
    \/ resourceSysdigMonitorAlertV2MetricRead
    \/ resourceSysdigMonitorAlertV2MetricUpdate
    \/ resourceSysdigMonitorAlertV2MetricDelete

NextDelete == ClientDelete \/ resourceSysdigMonitorAlertV2MetricDelete

Init ==
    /\ call = NoCall
    /\ d \in {NewResourceData(id, c) : id \in {UnsetID} \cup ImportedIDs, c \in Configs}
    /\ last = NoOutcome

\* The cloudauth client's operations.
SpecClient == Init /\ [][NextClient]_vars

\* The metric alert's lifecycle handlers.
SpecAlert == Init /\ [][NextAlert]_vars

\* The two delete paths together.
SpecDelete == Init /\ [][NextDelete]_vars

(***************************************************************************)
(* Properties                                                              *)
(***************************************************************************)
\* The status codes each cloudauth operation accepts.
AcceptedStatus(op) ==
    CASE op = "Create" -> {StatusOK, StatusCreated}
      [] op = "Get" -> {StatusOK}
      [] op = "Update" -> {StatusOK}
      [] op = "Delete" -> {StatusOK, StatusNoContent}
      [] OTHER -> {}

\* The errors the monitor client returned to a handler.
ClientErrors(o) == {o.calls[i].err : i \in 1..Len(o.calls)} \ {"nil"}

\* C1: a response whose status is outside the operation's accepted set
\* ({200, 201} Create, {200} Get and Update, {200, 204} Delete) makes the
\* operation return an error and a nil account; a status inside the set
\* never yields the error made from the response.
C1_StatusContract ==
    (call.op # "none" /\ call.status # 0) =>
        IF call.status \notin AcceptedStatus(call.op)
        THEN call.err # "nil" /\ call.account = NilAccount
        ELSE call.err # ErrorFromResponse(call)

C1_Witness ==
    /\ call.op = "Create"
    /\ call.status = StatusNoContent
    /\ call.err = "response error"
    /\ call.account = NilAccount

\* C6: every cloudauth operation hands the Requester at most one request:
\* none when marshaling fails, exactly one otherwise, also after a transport
\* error or an unexpected status.
C6_SingleShot ==
    call.op # "none" =>
        /\ Len(call.requests) <= 1
        /\ (call.err = "marshal error") <=> (Len(call.requests) = 0)

C6_Witness ==
    /\ call.op = "Update"
    /\ call.err = "transport error"
    /\ Len(call.requests) = 1

\* C5: a delete answered with 404 is an error of DeleteCloudauthAccountSecure,
\* and the Delete handler returns the error of its client's delete as its
\* diagnostic.
C5_DeleteNotFoundIsError ==
    /\ (call.op = "Delete" /\ call.status = 404) => call.err # "nil"
    /\ last.handler = "Delete" => \A e \in ClientErrors(last) : last.diag = e

C5_Witness ==
    /\ call.op = "Delete"
    /\ call.status = 404
    /\ call.err = "response error"
    /\ last.handler = "Delete"
    /\ ClientErrors(last) = {"monitor api error"}
    /\ last.diag = "monitor api error"

\* The error buildAlertV2MetricStruct makes of a failed descriptor lookup.
WrappedLookupErr(metric, err) == "error getting descriptor for label " \o metric \o ": " \o err

\* C2, as claimed: whenever a monitor client call of a handler returned an
\* error, the handler returned a diagnostic.
C2_EveryClientErrorIsADiagnostic ==
    ClientErrors(last) # {} => last.diag # "nil"

\* C2, amended: Create, Update and Delete return the client's error as their
\* diagnostic (the descriptor lookup's error wrapped with the metric name);
\* Read returns no diagnostic for an error of GetAlertV2MetricById and
\* clears the resource ID instead.
C2_ClientErrorsForwardedExceptRead ==
    \A e \in ClientErrors(last) :
        IF last.handler = "Read"
        THEN last.diag = "nil" /\ d.id = UnsetID
        ELSE \/ last.diag = e
             \/ last.diag = WrappedLookupErr(d.metric, e)

C2_Witness ==
    /\ last.handler = "Read"
    /\ ClientErrors(last) = {"monitor api error"}
    /\ last.diag = "nil"
    /\ d.id = UnsetID

\* Whether a handler outcome sent an alert to the server (CreateAlertV2Metric
\* or UpdateAlertV2Metric), and the alert it sent.
SentAlert(o) ==
    /\ o.calls # <<>>
    /\ o.calls[Len(o.calls)].fn \in {"CreateAlertV2Metric", "UpdateAlertV2Metric"}

RequestOf(o) == o.calls[Len(o.calls)].alert[1]

\* A step that is a round trip of the two mappers: a Create or Update that
\* built a struct from d, got the same configuration back from the server
\* and wrote it into d.
RoundTripStep ==
    /\ last'.handler \in {"Create", "Update"}
    /\ last'.diag = "nil"
    /\ SentAlert(last')
    /\ last'.response # NoAlert
    /\ last'.response[1].Config = RequestOf(last').Config

\* C3, as claimed: after a round trip every configuration field of d has the
\* value it had before, whatever the warning threshold and whatever the
\* descriptor's public ID.
C3_RoundTripReproducesEveryField ==
    [][RoundTripStep => ConfigOf(d') = ConfigOf(d)]_vars

\* C3, amended: after a round trip every configuration field other than
\* metric has the value it had before (a warning threshold of 0 is not
\* carried by the struct, and d's is left as it was); metric is the
\* descriptor's public ID, so the whole configuration is reproduced exactly
\* when the descriptor's public ID is the configured metric name.
C3_RoundTripUpToMetric ==
    [][RoundTripStep =>
        /\ [ConfigOf(d') EXCEPT !.metric = d.metric] = ConfigOf(d)
        /\ d'.metric = RequestOf(last').Config.Metric.PublicID
        /\ (RequestOf(last').Config.Metric.PublicID = d.metric) <=> (ConfigOf(d') = ConfigOf(d))
        /\ RequestOf(last').Config.WarningThreshold =
               (IF d.warning_threshold = <<0>> THEN Nil ELSE d.warning_threshold)]_vars

C3_Witness ==
    /\ last.handler = "Create"
    /\ last.diag = "nil"
    /\ SentAlert(last)
    /\ last.response # NoAlert
    /\ last.response[1].Config = RequestOf(last).Config
    /\ RequestOf(last).Config.WarningThreshold = Nil
    /\ d.warning_threshold = <<0>>
    /\ d.metric = "sysdig_host_cpu_used_percent"
    /\ d.time_aggregation = RequestOf(last).Config.TimeAggregation

\* C4, as claimed: a Create from a configuration without warning_threshold
\* sends a request with a nil WarningThreshold and an empty
\* WarningConditionOperator, and the state has no warning_threshold once a
\* response without one is stored; a Create from a configuration with a
\* warning_threshold sends that value and the configured op as
\* WarningConditionOperator.
C4_WarningThresholdInRequest ==
    [][(last'.handler = "Create" /\ SentAlert(last')) =>
        IF d.warning_threshold = Nil
        THEN /\ RequestOf(last').Config.WarningThreshold = Nil
             /\ RequestOf(last').Config.WarningConditionOperator = ""
             /\ (last'.response # NoAlert /\ last'.response[1].Config.WarningThreshold = Nil)
                    => d'.warning_threshold = Nil
        ELSE /\ RequestOf(last').Config.WarningThreshold = d.warning_threshold
             /\ RequestOf(last').Config.WarningConditionOperator = d.op]_vars

\* A failed descriptor lookup, as the outcome of a handler shows it.
LookupFailed(o) ==
    \E i \in 1..Len(o.calls) : o.calls[i].fn = "GetLabelDescriptor" /\ o.calls[i].err # "nil"

\* C7: when GetLabelDescriptor fails, buildAlertV2MetricStruct returns a nil
\* alert and the lookup's error wrapped with the metric name, and Create and
\* Update return that as their diagnostic with no call after the lookup and
\* with the ID and the state as they were.
C7_LookupFailureStopsTheHandler ==
    [][/\ \A b \in BuildEnvs(d.metric) :
              (b.common = "nil" /\ b.scoped = "nil" /\ b.lookup.err # "nil") =>
                  /\ buildAlertV2MetricStruct(d, b).alert = <<>>
                  /\ buildAlertV2MetricStruct(d, b).err = WrappedLookupErr(d.metric, b.lookup.err)
       /\ (last'.handler \in {"Create", "Update"} /\ LookupFailed(last')) =>
              /\ last'.diag = WrappedLookupErr(d.metric, last'.calls[1].err)
              /\ Len(last'.calls) = 1
              /\ last'.response = NoAlert
              /\ d' = d]_vars

C7_Witness ==
    /\ last.handler = "Update"
    /\ LookupFailed(last)
    /\ last.diag = "error getting descriptor for label cpu.used.percent: descriptor not found"
    /\ d.metric = "cpu.used.percent"

\* C8: after a Create the resource has an ID exactly when CreateAlertV2Metric
\* returned an alert; the ID is then the decimal string of the alert's ID,
\* also when writing the alert into the state failed afterwards.
C8_IDOnlyAfterCreation ==
    last.handler = "Create" =>
        IF last.response # NoAlert
        THEN d.id = Itoa(last.response[1].ID) /\ Atoi(d.id).val = last.response[1].ID
        ELSE d.id = UnsetID /\ last.diag # "nil"

C8_Witness ==
    /\ last.handler = "Create"
    /\ last.diag = "common state error"
    /\ last.response # NoAlert
    /\ last.response[1].ID >= Len(DigitChars)
    /\ d.id = Itoa(last.response[1].ID)

\* C9: a Read or Update that stores a response with a nil WarningThreshold
\* leaves warning_threshold as it was; op, threshold, time_aggregation,
\* group_aggregation, metric and no_data_behaviour are always the response's.
C9_NilWarningThresholdKeepsState ==
    [][(last'.handler \in {"Read", "Update"} /\ last'.response # NoAlert /\ last'.diag = "nil") =>
        LET c == last'.response[1].Config IN
        /\ d'.warning_threshold = (IF c.WarningThreshold = Nil THEN d.warning_threshold ELSE c.WarningThreshold)
        /\ d'.op = c.ConditionOperator
        /\ d'.threshold = c.Threshold
        /\ d'.time_aggregation = c.TimeAggregation
        /\ d'.group_aggregation = c.GroupAggregation
        /\ d'.metric = c.Metric.PublicID
        /\ d'.no_data_behaviour = c.NoDataBehaviour
        /\ d'.id = d.id]_vars

C9_Witness ==
    /\ last.handler = "Read"
    /\ last.diag = "nil"
    /\ last.response # NoAlert
    /\ last.response[1].Config.WarningThreshold = Nil
    /\ d.warning_threshold = <<80>>
    /\ d.op = last.response[1].Config.ConditionOperator

\* The calls of an outcome that address an alert by its ID.
AddressedIDs(o) ==
    {o.calls[i].id : i \in {j \in 1..Len(o.calls) :
        o.calls[j].fn \in {"GetAlertV2MetricById", "UpdateAlertV2Metric", "DeleteAlertV2Metric"}}}

\* C10: with an ID that is no integer, Read and Delete return a diagnostic,
\* make no client call and change nothing, while Update never returns the
\* parse error and sends its alert with ID 0; with an ID that is an integer,
\* Read, Update and Delete address the alert of that ID only.
C10_NonNumericID ==
    [][last'.handler \in {"Read", "Update", "Delete"} =>
        IF Atoi(d.id).err # "nil"
        THEN IF last'.handler = "Update"
             THEN /\ last'.diag # Atoi(d.id).err
                  /\ AddressedIDs(last') \subseteq {0}
                  /\ SentAlert(last') => RequestOf(last').ID = 0
                  /\ (last'.diag = "nil") => SentAlert(last')
             ELSE /\ last'.diag = Atoi(d.id).err \/ last'.diag = "monitor client error"
                  /\ last'.calls = <<>>
                  /\ d' = d
        ELSE /\ AddressedIDs(last') \subseteq {Atoi(d.id).val}
             /\ SentAlert(last') => RequestOf(last').ID = Atoi(d.id).val
             /\ (last'.diag = "nil") => AddressedIDs(last') # {}]_vars

C10_Witness ==
    /\ last.handler = "Update"
    /\ Atoi(d.id).err # "nil"
    /\ d.id # UnsetID
    /\ SentAlert(last)
    /\ RequestOf(last).ID = 0
    /\ last.diag = "nil"

====
